---------------------------- MODULE Spec2Model ----------------------------
(***************************************************************************)
(* Lifecycle of the dual-protocol server process of go-grpcgateway:        *)
(*   cmd/main.go                 runServer, the coordinator                *)
(*   internal/server (gRPC)      GRPCServer.Start / GRPCServer.Stop        *)
(*   internal/server (gateway)   GatewayServer.Start / GatewayServer.Stop  *)
(*   internal/db                 NewMongoDB / MongoDB.Close                *)
(* The coordinator, the gRPC goroutine and the gateway goroutine are three *)
(* processes, each with its own program counter.  The grpc.Server,         *)
(* http.Server and grpc.ClientConn objects the code calls into are state   *)
(* of the model, changed the way the calls at the named source lines       *)
(* change them.  Signals, port availability, datastore reachability and    *)
(* requests are the environment.                                           *)
(***************************************************************************)
EXTENDS Integers, FiniteSets, Sequences, TLC

(* Bounds of the model (not program constants). *)
MaxSignals == 2
MaxReq == 2
MaxStops == 4

VARIABLES
    pc,            \* the coordinator's position in runServer (or in the harness)
    cfgLoaded,     \* config.Load has returned a *Config
    db,            \* the datastore handle: "none", "open", "closed"
    created,       \* NewGRPCServer / NewGatewayServer have run
    ctxCancelled,  \* runServer's ctx (main.go:54) has been cancelled
    notified,      \* signal.Notify(sigChan, SIGINT, SIGTERM) is registered
    sigChan,       \* number of signals buffered in sigChan (capacity 1)
    sigCount,      \* signals the environment has sent so far
    sigRecv,       \* the select has received a signal from sigChan
    wg,            \* the sync.WaitGroup counter
    gwStopCalls,   \* invocations of GatewayServer.Stop
    grpcStopCalls, \* invocations of GRPCServer.Stop
    dbCloseCalls,  \* invocations of MongoDB.Close
    gwStopRet,     \* GatewayServer.Stop's result: "none" (not returned), "nil", "err"
    grpcStopRet,   \* GRPCServer.Stop has returned: "none", "ret"
    lnerr,         \* http.Server.Shutdown's listener-close result, returned after the drain
    grpcPortFree,  \* environment: host:GRPCPort can be bound
    httpPortFree,  \* environment: host:HTTPPort can be bound
    gpc,           \* the gRPC goroutine's position in GRPCServer.Start
    gLis,          \* the gRPC listener: "none", "bound", "closed"
    gLisRel,       \* times the gRPC listener has been released
    gQuit,         \* grpc.Server: Stop/GracefulStop has been called
    gDone,         \* grpc.Server: a GracefulStop has completed
    gErr,          \* GRPCServer.Start's result: "none", "nil", "err"
    srvDirect,     \* RPCs in flight at the gRPC server from direct clients
    srvGw,         \* RPCs in flight at the gRPC server that came over the gateway's conn
    wpc,           \* the gateway goroutine's position in GatewayServer.Start
    conn,          \* the gateway's client connection: "none", "open", "closed"
    hSrv,          \* GatewayServer.server: "nil" or "set"
    hShut,         \* http.Server: Shutdown has been called
    hLis,          \* the HTTP listener: "none", "bound", "closed"
    hLisRel,       \* times the HTTP listener has been released
    wErr,          \* GatewayServer.Start's result: "none", "err"
    httpPending,   \* HTTP requests accepted, not yet forwarded or answered
    httpRpc,       \* HTTP requests waiting for their translated RPC
    ran,           \* history: the handles that have reached running
    restop,        \* history: the handles whose Stop was called again after they had stopped
    web,           \* the last HTTP exchange of the gateway's mux: request and response
    users,         \* the "users" collection: _id -> document
    nextId,        \* the next ObjectID the driver generates
    now,           \* the wall clock, in ticks
    call,          \* the last UserService call: request and result
    fresh,         \* history: the latest CreateUser's response, while its user is as created
    deleted        \* history: the ids DeleteUser has removed

bootVars  == <<cfgLoaded, db, created, ctxCancelled, notified, sigRecv, dbCloseCalls>>
stopVars  == <<gwStopCalls, grpcStopCalls, gwStopRet, grpcStopRet, lnerr>>
coordVars == <<pc, wg, bootVars, stopVars>>
sigVars   == <<sigChan, sigCount>>
envVars   == <<grpcPortFree, httpPortFree>>
grpcVars  == <<gpc, gLis, gQuit, gDone, gErr, srvDirect, srvGw>>
gwVars    == <<wpc, conn, hSrv, hShut, hLis, wErr, httpPending, httpRpc>>
relVars   == <<gLisRel, hLisRel>>
lifeVars  == <<coordVars, sigVars, envVars, grpcVars, gwVars, relVars, ran, restop>>
storeVars == <<users, nextId, now, call, fresh, deleted>>
appVars   == <<web, storeVars>>
vars == <<lifeVars, appVars>>

\* RPCs in flight at the gRPC server: the handlers that use the datastore handle.
RpcInflight == srvDirect + srvGw

(***************************************************************************)
(* Outcomes of calls whose result the environment decides.                 *)
(***************************************************************************)
\* db.NewMongoDB: Connect and Ping succeed, or one of them returns an error.
ConnectOutcomes == {"ok", "err"}
\* pb.RegisterUserServiceHandler: nil, or an error (RegisterError).
RegisterOutcomes == {"nil", "err"}
\* net.Listener.Close inside http.Server.Shutdown: nil, or an error.
CloseResults == {"nil", "err"}

(***************************************************************************)
(* UserService (internal/models/user.go, package service) over the "users" *)
(* collection.  A handler runs as one step: it decodes the request, makes  *)
(* its datastore calls and builds the result.  Until the response has been *)
(* sent, `call` holds the operation, the identifier and the status, and    *)
(* for a successful call the other request fields and the result; a        *)
(* ListUsers call holds its request and its Find options once it has       *)
(* called Find.                                                            *)
(***************************************************************************)
(* Bounds of the model (not program constants). *)
MaxUsers == 2
MaxTime == 2
TicksPerMs == 2

\* Largest int32; the least is MinInt32.
MaxInt32 == 2147483647
MinInt32 == (-MaxInt32) - 1
\* user.go:119-124: the defaults of ListUsers.
DefaultPage == 1
DefaultPageSize == 10

\* Values of the string fields of a request.
Strings == {"a", "b"}
\* An optional (pointer) field of UpdateUserRequest: nil, or a value.
OptStrings == {{}} \cup {{v} : v \in Strings}
\* primitive.ObjectID values, in the order the driver generates them.
ObjectIds == 1..MaxUsers
\* Identifier strings of a request: the 24 hex digits of an ObjectID in lower
\* case, those of the first one in upper case, and a string that is not 24 hex
\* digits.
IdStrings == ({"lower"} \X ObjectIds) \cup {<<"upper", 1>>, <<"bad", 0>>}
\* Values of the int32 fields page and page_size of ListUsersRequest.
PageInputs == {-1, 0, 1, 3, 65537}
PageSizeInputs == {-1, 0, 1, 65536, MaxInt32}
\* A datastore call returns a result, or an error (network, timeout, server).
DatastoreOutcomes == {"ok", "err"}

\* primitive.ObjectIDFromHex: the ObjectID of 24 hex digits of either case, as a
\* one-element set, or the empty set for ErrInvalidHex.
ObjectIDFromHex(s) == IF s[1] = "bad" THEN {} ELSE {s[2]}
\* primitive.ObjectID.Hex: lower-case hex digits.
Hex(oid) == <<"lower", oid>>
\* BSON stores a time.Time as a datetime of whole milliseconds.
TruncMs(t) == t - (t % TicksPerMs)

\* int32 addition as Go computes it: the sum modulo 2^32, as a signed value.
Add32(x, y) ==
    IF x >= 0 /\ y >= 0 /\ x > MaxInt32 - y
    THEN ((x - MaxInt32) - 1) + ((y - MaxInt32) - 1)
    ELSE IF x < 0 /\ y < 0 /\ x < MinInt32 - y
    THEN ((x + MaxInt32) + 1) + ((y + MaxInt32) + 1)
    ELSE x + y

\* int32 multiplication as Go computes it, for y >= 0: x * y is twice
\* x * (y \div 2), plus x when y is odd, every sum taken modulo 2^32.
RECURSIVE Mul32(_, _)
Mul32(x, y) ==
    IF y = 0 THEN 0
    ELSE CHOOSE r \in {Add32(Add32(h, h), IF y % 2 = 1 THEN x ELSE 0) :
                          h \in {Mul32(x, y \div 2)}} : TRUE

Min(a, b) == IF a <= b THEN a ELSE b
Max(a, b) == IF a >= b THEN a ELSE b
\* The collection with document d stored under k, and with k's document removed.
Put(f, k, d) == [x \in DOMAIN f \cup {k} |-> IF x = k THEN d ELSE f[x]]
Drop(f, k) == [x \in DOMAIN f \ {k} |-> f[x]]

\* user.go:20-29.
NewUser(name, email, phone) ==
    [name |-> name, email |-> email, phone |-> phone,
     created_at |-> now, updated_at |-> now]

\* The document the driver writes for a models.User (user.go:10-17): _id is
\* omitted when zero, and the two times become BSON datetimes.
Marshal(user) ==
    [user EXCEPT !.created_at = TruncMs(@), !.updated_at = TruncMs(@)]

\* user.go:234-243.  timestamppb.New keeps the instant as it is.
modelToProto(oid, user) ==
    [id |-> Hex(oid), name |-> user.name, email |-> user.email, phone |-> user.phone,
     created_at |-> user.created_at, updated_at |-> user.updated_at]

\* No call is being served.
NoCall == [op |-> "none"]

\* The state of the request side before any request.
AppInit ==
    /\ web = [method |-> "none"]
    /\ users = << >> /\ nextId = 1 /\ now = 0
    /\ call = NoCall /\ fresh = {} /\ deleted = {}

\* The collection and its history as a handler finds them, with no result yet.
Store == [users |-> users, nextId |-> nextId, fresh |-> fresh, deleted |-> deleted]
\* The handler returns result c and leaves the collection as it found it.
Returns(c) == Store @@ [call |-> c]

\* The history `fresh` once the user with _id oid has been updated or deleted.
Untouched(oid) == {u \in fresh : u.id # Hex(oid)}

\* user.go:68-85.  InsertOne (outcome r) generates the _id; the response is built
\* from the in-memory user, whose times are the time.Now() of NewUser.
CreateUser(name, email, phone, r) ==
    LET user == NewUser(name, email, phone)
        req  == [op |-> "create"]
        ok   == req @@ [name |-> name, email |-> email, phone |-> phone]
    IN  IF r = "err"
        THEN Returns(req @@ [status |-> "Internal", dbCalls |-> 1])
        ELSE [users   |-> Put(users, nextId, Marshal(user)),
              nextId  |-> nextId + 1,
              fresh   |-> {modelToProto(nextId, user)},
              deleted |-> deleted,
              call    |-> ok @@ [status |-> "OK", dbCalls |-> 1,
                                 user |-> modelToProto(nextId, user)]]

\* user.go:88-107.  r is the outcome of FindOne.
GetUser(s, r) ==
    LET objectID == ObjectIDFromHex(s)
        req == [op |-> "get", id |-> s]
    IN  IF objectID = {}
        THEN Returns(req @@ [status |-> "InvalidArgument", dbCalls |-> 0])
        ELSE LET oid == CHOOSE x \in objectID : TRUE
             IN  IF r = "err"
                 THEN Returns(req @@ [status |-> "Internal", dbCalls |-> 1])
                 ELSE IF oid \notin DOMAIN users
                 THEN Returns(req @@ [status |-> "NotFound", dbCalls |-> 1])
                 ELSE Returns(req @@ [status |-> "OK", dbCalls |-> 1,
                                      user |-> modelToProto(oid, users[oid])])

\* Fault variant of ListUsers: the response echoes the request's page and
\* page_size.
ListUsersEchoesRequest(p, ps, rc, rf) ==
    LET page     == IF p <= 0 THEN DefaultPage ELSE p
        pageSize == IF ps <= 0 THEN DefaultPageSize ELSE ps
        skip     == Mul32(page - 1, pageSize)
        limit    == pageSize
        total    == Cardinality(DOMAIN users)
        req      == [op |-> "list"]
        ok       == req @@ [page |-> p, pageSize |-> ps]
    IN  IF rc = "err"
        THEN Returns(req @@ [status |-> "Internal", dbCalls |-> 1])
        ELSE IF rf = "err" \/ skip < 0
        THEN Returns(ok @@ [status |-> "Internal", dbCalls |-> 2,
                            skip |-> skip, limit |-> limit])
        ELSE Returns(ok @@ [status |-> "OK", dbCalls |-> 2,
                            skip |-> skip, limit |-> limit,
                            count |-> Min(limit, Max(total - skip, 0)),
                            total |-> total, respPage |-> p, respPageSize |-> ps])

\* user.go:110-165.  page, pageSize and skip are int32; rc and rf are the
\* outcomes of CountDocuments and Find, and a negative skip is rejected by the
\* datastore, so Find returns an error.  The page holds the documents left after
\* skip, at most limit of them.  A call that reached Find records the skip and
\* the limit it handed to the datastore.
ListUsers(p, ps, rc, rf) ==
    LET page     == IF p <= 0 THEN DefaultPage ELSE p
        pageSize == IF ps <= 0 THEN DefaultPageSize ELSE ps
        skip     == Mul32(page - 1, pageSize)
        limit    == pageSize
        total    == Cardinality(DOMAIN users)
        req      == [op |-> "list"]
        ok       == req @@ [page |-> p, pageSize |-> ps]
    IN  IF rc = "err"
        THEN Returns(req @@ [status |-> "Internal", dbCalls |-> 1])
        ELSE IF rf = "err" \/ skip < 0
        THEN Returns(ok @@ [status |-> "Internal", dbCalls |-> 2,
                            skip |-> skip, limit |-> limit])
        ELSE Returns(ok @@ [status |-> "OK", dbCalls |-> 2,
                            skip |-> skip, limit |-> limit,
                            count |-> Min(limit, Max(total - skip, 0)),
                            total |-> total, respPage |-> page, respPageSize |-> pageSize])

\* The $set document of UpdateUser (user.go:176-190) applied to document d.
ApplySet(d, name, email, phone) ==
    [name       |-> IF name = {} THEN d.name ELSE CHOOSE v \in name : TRUE,
     email      |-> IF email = {} THEN d.email ELSE CHOOSE v \in email : TRUE,
     phone      |-> IF phone = {} THEN d.phone ELSE CHOOSE v \in phone : TRUE,
     created_at |-> d.created_at,
     updated_at |-> TruncMs(now)]

\* Fault variant of UpdateUser: every field is written, an absent one as the
\* empty string.
UpdateUserOverwritesAll(s, name, email, phone, r) ==
    LET objectID == ObjectIDFromHex(s)
        req == [op |-> "update", id |-> s]
        ok  == req @@ [name |-> name, email |-> email, phone |-> phone]
    IN  IF objectID = {}
        THEN Returns(req @@ [status |-> "InvalidArgument", dbCalls |-> 0])
        ELSE LET oid == CHOOSE x \in objectID : TRUE
             IN  IF r = "err"
                 THEN Returns(req @@ [status |-> "Internal", dbCalls |-> 1])
                 ELSE IF oid \notin DOMAIN users
                 THEN Returns(req @@ [status |-> "NotFound", dbCalls |-> 1])
                 ELSE LET d == ApplySet(users[oid],
                                        IF name = {} THEN {""} ELSE name,
                                        IF email = {} THEN {""} ELSE email,
                                        IF phone = {} THEN {""} ELSE phone)
                      IN  [users   |-> [users EXCEPT ![oid] = d],
                           nextId  |-> nextId,
                           fresh   |-> Untouched(oid),
                           deleted |-> deleted,
                           call    |-> ok @@ [status |-> "OK", dbCalls |-> 1,
                                              user |-> modelToProto(oid, d)]]

\* Fault variant of UpdateUser: FindOneAndUpdate with upsert.
UpdateUserUpserts(s, name, email, phone, r) ==
    LET objectID == ObjectIDFromHex(s)
        req == [op |-> "update", id |-> s]
        ok  == req @@ [name |-> name, email |-> email, phone |-> phone]
    IN  IF objectID = {}
        THEN Returns(req @@ [status |-> "InvalidArgument", dbCalls |-> 0])
        ELSE LET oid == CHOOSE x \in objectID : TRUE
             IN  IF r = "err"
                 THEN Returns(req @@ [status |-> "Internal", dbCalls |-> 1])
                 ELSE LET old == IF oid \in DOMAIN users THEN users[oid]
                                 ELSE [name |-> "", email |-> "", phone |-> "",
                                       created_at |-> 0, updated_at |-> 0]
                          d == ApplySet(old, name, email, phone)
                      IN  [users   |-> Put(users, oid, d),
                           nextId  |-> nextId,
                           fresh   |-> Untouched(oid),
                           deleted |-> deleted,
                           call    |-> ok @@ [status |-> "OK", dbCalls |-> 1,
                                              user |-> modelToProto(oid, d)]]

\* user.go:168-209.  FindOneAndUpdate (outcome r) without upsert, returning the
\* document after the update.
UpdateUser(s, name, email, phone, r) ==
    LET objectID == ObjectIDFromHex(s)
        req == [op |-> "update", id |-> s]
        ok  == req @@ [name |-> name, email |-> email, phone |-> phone]
    IN  IF objectID = {}
        THEN Returns(req @@ [status |-> "InvalidArgument", dbCalls |-> 0])
        ELSE LET oid == CHOOSE x \in objectID : TRUE
             IN  IF r = "err"
                 THEN Returns(req @@ [status |-> "Internal", dbCalls |-> 1])
                 ELSE IF oid \notin DOMAIN users
                 THEN Returns(req @@ [status |-> "NotFound", dbCalls |-> 1])
                 ELSE LET d == ApplySet(users[oid], name, email, phone)
                      IN  [users   |-> [users EXCEPT ![oid] = d],
                           nextId  |-> nextId,
                           fresh   |-> Untouched(oid),
                           deleted |-> deleted,
                           call    |-> ok @@ [status |-> "OK", dbCalls |-> 1,
                                              user |-> modelToProto(oid, d)]]

\* Fault variant of DeleteUser: a delete that removed nothing is reported as done.
DeleteUserIgnoresCount(s, r) ==
    LET objectID == ObjectIDFromHex(s)
        req == [op |-> "delete", id |-> s]
    IN  IF objectID = {}
        THEN Returns(req @@ [status |-> "InvalidArgument", dbCalls |-> 0])
        ELSE LET oid == CHOOSE x \in objectID : TRUE
             IN  IF r = "err"
                 THEN Returns(req @@ [status |-> "Internal", dbCalls |-> 1])
                 ELSE [users   |-> Drop(users, oid),
                       nextId  |-> nextId,
                       fresh   |-> Untouched(oid),
                       deleted |-> IF oid \in DOMAIN users THEN deleted \cup {oid}
                                   ELSE deleted,
                       call    |-> req @@ [status |-> "OK", dbCalls |-> 1]]

\* user.go:212-231.  r is the outcome of DeleteOne.
DeleteUser(s, r) ==
    LET objectID == ObjectIDFromHex(s)
        req == [op |-> "delete", id |-> s]
    IN  IF objectID = {}
        THEN Returns(req @@ [status |-> "InvalidArgument", dbCalls |-> 0])
        ELSE LET oid == CHOOSE x \in objectID : TRUE
             IN  IF r = "err"
                 THEN Returns(req @@ [status |-> "Internal", dbCalls |-> 1])
                 ELSE IF oid \notin DOMAIN users
                 THEN Returns(req @@ [status |-> "NotFound", dbCalls |-> 1])
                 ELSE [users   |-> Drop(users, oid),
                       nextId  |-> nextId,
                       fresh   |-> Untouched(oid),
                       deleted |-> deleted \cup {oid},
                       call    |-> req @@ [status |-> "OK", dbCalls |-> 1]]

\* The gRPC server runs a handler for a request: the handler's effect on the
\* collection and its result become the state.
Serve(results) ==
    /\ call = NoCall
    /\ \E res \in results :
          /\ users' = res.users /\ nextId' = res.nextId
          /\ fresh' = res.fresh /\ deleted' = res.deleted
          /\ call' = res.call
    /\ UNCHANGED <<lifeVars, web, now>>

CreateUserCall ==
    /\ nextId <= MaxUsers
    /\ Serve({CreateUser(name, email, phone, r) :
                name \in Strings, email \in Strings, phone \in Strings,
                r \in DatastoreOutcomes})
GetUserCall ==
    Serve({GetUser(s, r) : s \in IdStrings, r \in DatastoreOutcomes})
ListUsersCall ==
    Serve({ListUsers(p, ps, rc, rf) :
                p \in PageInputs, ps \in PageSizeInputs,
                rc \in DatastoreOutcomes, rf \in DatastoreOutcomes})
UpdateUserCall ==
    Serve({UpdateUser(s, name, email, phone, r) :
                s \in IdStrings, name \in OptStrings, email \in OptStrings,
                phone \in OptStrings, r \in DatastoreOutcomes})
DeleteUserCall ==
    Serve({DeleteUser(s, r) : s \in IdStrings, r \in DatastoreOutcomes})

\* The result of the call is sent to the client.
Reply ==
    /\ call # NoCall
    /\ call' = NoCall
    /\ UNCHANGED <<lifeVars, web, users, nextId, now, fresh, deleted>>

\* Time passes.
Tick ==
    /\ now < MaxTime
    /\ now' = now + 1
    /\ UNCHANGED <<lifeVars, web, users, nextId, call, fresh, deleted>>

(***************************************************************************)
(* The gateway's HTTP routing (gateway_server.go:84-173).  A path is the   *)
(* sequence of its segments, the parts between the slashes: "/" is <<"">>, *)
(* "/swagger" is <<"swagger">> and "/swagger/" is <<"swagger", "">>.       *)
(* Response headers are a set of <<name, value>> pairs; `reached` lists    *)
(* the handlers that ran, in order.                                        *)
(***************************************************************************)
Methods == {"GET", "POST", "PUT", "DELETE", "OPTIONS", "HEAD", "PATCH"}
Paths ==
    { <<"">>, <<"health">>, <<"api", "v1", "users">>, <<"api", "v1", "users", "id">>,
      <<"swagger.json">>, <<"swagger">>, <<"swagger", "">>, <<"swagger", "index.html">>,
      <<"", "swagger.json">> }
\* os.ReadFile("docs/api.swagger.json"): the file can be read, or not.
ReadFileOutcomes == {"ok", "err"}
\* The translation handler: no route for the request, or a route whose RPC
\* succeeds or fails.
TranslateOutcomes == {"no_route", "rpc_ok", "rpc_err"}

\* gateway_server.go:105-107.
CorsHeaders ==
    { <<"Access-Control-Allow-Origin", "*">>,
      <<"Access-Control-Allow-Methods", "GET, POST, PUT, DELETE, OPTIONS">>,
      <<"Access-Control-Allow-Headers", "Content-Type, Authorization">> }

\* The patterns registered on mainMux (gateway_server.go:90, 93, 96) with their
\* handlers.
Patterns ==
    { [pattern |-> <<"">>,             handler |-> "cors"],
      [pattern |-> <<"swagger.json">>, handler |-> "swaggerJSON"],
      [pattern |-> <<"swagger", "">>,  handler |-> "swaggerUI"] }

\* net/http cleanPath: empty segments inside the path are dropped.
RECURSIVE CleanPath(_)
CleanPath(p) ==
    IF Len(p) <= 1 THEN p
    ELSE IF Head(p) = "" THEN CleanPath(Tail(p))
    ELSE <<Head(p)>> \o CleanPath(Tail(p))

\* http.ServeMux: a pattern ending in a slash matches the paths below it, any
\* other pattern the path equal to it.
Matches(pattern, path) ==
    IF pattern[Len(pattern)] = ""
    THEN /\ Len(path) >= Len(pattern)
         /\ \A i \in 1..(Len(pattern) - 1) : path[i] = pattern[i]
    ELSE path = pattern

\* http.ServeMux.Handler: a path that is not clean, or that is registered only
\* with a trailing slash, is redirected; otherwise the longest matching pattern
\* wins.
Route(path) ==
    IF CleanPath(path) # path THEN "redirect"
    ELSE IF /\ \A e \in Patterns : e.pattern # path
            /\ \E e \in Patterns : e.pattern = Append(path, "")
    THEN "redirect"
    ELSE LET ms == {e \in Patterns : Matches(e.pattern, path)}
         IN  (CHOOSE e \in ms : \A f \in ms : Len(f.pattern) <= Len(e.pattern)).handler

\* http.RedirectHandler(url, StatusMovedPermanently).
Redirect(r) ==
    [status |-> 301, headers |-> {<<"Location", "target">>}, body |-> "",
     reached |-> <<"redirect">>]

\* runtime.ServeMux.ServeHTTP with the handlers of RegisterUserServiceHandler:
\* outcome o says whether a route matched and how its RPC ended.
Translate(r, o) ==
    CASE o = "no_route" -> [status |-> 404, headers |-> {<<"Content-Type", "application/json">>},
                            body |-> "error", reached |-> <<"translate">>]
      [] o = "rpc_ok"   -> [status |-> 200, headers |-> {<<"Content-Type", "application/json">>},
                            body |-> "message", reached |-> <<"translate", "rpc">>]
      [] o = "rpc_err"  -> [status |-> 500, headers |-> {<<"Content-Type", "application/json">>},
                            body |-> "error", reached |-> <<"translate", "rpc">>]

\* gateway_server.go:102-118, with the response `next` would write.
corsMiddleware(r, next) ==
    IF r.method = "OPTIONS"
    THEN [status |-> 200, headers |-> CorsHeaders, body |-> "", reached |-> <<"cors">>]
    ELSE [next EXCEPT !.headers = CorsHeaders \cup @, !.reached = <<"cors">> \o @]

\* gateway_server.go:121-131.
swaggerJSONHandler(r, f) ==
    IF f = "err"
    THEN [status |-> 404, headers |-> {<<"Content-Type", "text/plain; charset=utf-8">>},
          body |-> "Swagger file not found", reached |-> <<"swaggerJSON">>]
    ELSE [status |-> 200, headers |-> {<<"Content-Type", "application/json">>},
          body |-> "api.swagger.json", reached |-> <<"swaggerJSON">>]

\* gateway_server.go:134-173.
swaggerUIHandler(r) ==
    [status |-> 200, headers |-> {<<"Content-Type", "text/html">>},
     body |-> "swaggerHTML", reached |-> <<"swaggerUI">>]

\* mainMux.ServeHTTP (gateway_server.go:85-99): the response to request r.
setupRoutes(r, f, o) ==
    LET h == Route(r.path)
    IN  CASE h = "redirect"    -> Redirect(r)
          [] h = "cors"        -> corsMiddleware(r, Translate(r, o))
          [] h = "swaggerJSON" -> swaggerJSONHandler(r, f)
          [] h = "swaggerUI"   -> swaggerUIHandler(r)

\* The gateway answers an HTTP request.
ServeHTTP ==
    /\ \E m \in Methods, p \in Paths, f \in ReadFileOutcomes, o \in TranslateOutcomes :
          LET r == [method |-> m, path |-> p]
          IN  web' = r @@ setupRoutes(r, f, o)
    /\ UNCHANGED <<lifeVars, storeVars>>

Init ==
    /\ pc = "load"
    /\ cfgLoaded = FALSE /\ db = "none" /\ created = FALSE
    /\ ctxCancelled = FALSE /\ notified = FALSE
    /\ sigChan = 0 /\ sigCount = 0 /\ sigRecv = FALSE
    /\ wg = 0
    /\ gwStopCalls = 0 /\ grpcStopCalls = 0 /\ dbCloseCalls = 0
    /\ gwStopRet = "none" /\ grpcStopRet = "none" /\ lnerr = "nil"
    /\ grpcPortFree \in BOOLEAN /\ httpPortFree \in BOOLEAN
    /\ gpc = "idle" /\ gLis = "none" /\ gLisRel = 0
    /\ gQuit = FALSE /\ gDone = FALSE /\ gErr = "none"
    /\ srvDirect = 0 /\ srvGw = 0
    /\ wpc = "idle" /\ conn = "none" /\ hSrv = "nil" /\ hShut = FALSE
    /\ hLis = "none" /\ hLisRel = 0 /\ wErr = "none"
    /\ httpPending = 0 /\ httpRpc = 0
    /\ ran = {} /\ restop = {}
    /\ AppInit

(***************************************************************************)
(* runServer (cmd/main.go), start-up.                                      *)
(***************************************************************************)
\* main.go:33-36.  config.Load always returns a nil error (config.go:71).
LoadConfig ==
    /\ pc = "load"
    /\ cfgLoaded' = TRUE
    /\ pc' = "connect"
    /\ UNCHANGED <<appVars, db, created, ctxCancelled, notified, sigRecv, dbCloseCalls,
                   wg, stopVars, sigVars, envVars, grpcVars, gwVars, relVars, ran, restop>>

\* Fault variant of ConnectMongoDB: the error of NewMongoDB is not checked.
ConnectMongoDBIgnoringError ==
    /\ pc = "connect"
    /\ \E r \in ConnectOutcomes :
          /\ db' = IF r = "ok" THEN "open" ELSE "none"
          /\ pc' = "create"
    /\ UNCHANGED <<appVars, cfgLoaded, created, ctxCancelled, notified, sigRecv, dbCloseCalls,
                   wg, stopVars, sigVars, envVars, grpcVars, gwVars, relVars, ran, restop>>

\* main.go:39-47.  On error logrus.Fatal exits the process with status 1;
\* otherwise the handle is open and its Close is deferred.
ConnectMongoDB ==
    /\ pc = "connect"
    /\ \E r \in ConnectOutcomes :
          IF r = "ok"
          THEN db' = "open" /\ pc' = "create"
          ELSE db' = "none" /\ pc' = "exit_fail"
    /\ UNCHANGED <<appVars, cfgLoaded, created, ctxCancelled, notified, sigRecv, dbCloseCalls,
                   wg, stopVars, sigVars, envVars, grpcVars, gwVars, relVars, ran, restop>>

\* main.go:49-55.  NewGRPCServer, NewGatewayServer, context.WithCancel.
CreateServers ==
    /\ pc = "create"
    /\ created' = TRUE
    /\ pc' = "spawn_grpc"
    /\ UNCHANGED <<appVars, cfgLoaded, db, ctxCancelled, notified, sigRecv, dbCloseCalls,
                   wg, stopVars, sigVars, envVars, grpcVars, gwVars, relVars, ran, restop>>

\* main.go:60-67.  wg.Add(1); go func() { defer wg.Done(); grpcServer.Start() }().
SpawnGRPC ==
    /\ pc = "spawn_grpc"
    /\ wg' = wg + 1
    /\ gpc' = "listen"
    /\ pc' = "spawn_gw"
    /\ UNCHANGED <<appVars, bootVars, stopVars, sigVars, envVars, gwVars, relVars, ran, restop,
                   gLis, gQuit, gDone, gErr, srvDirect, srvGw>>

\* main.go:69-76.  wg.Add(1); go func() { defer wg.Done(); gatewayServer.Start() }().
SpawnGateway ==
    /\ pc = "spawn_gw"
    /\ wg' = wg + 1
    /\ wpc' = "dial"
    /\ pc' = "notify"
    /\ UNCHANGED <<appVars, bootVars, stopVars, sigVars, envVars, grpcVars, relVars, ran, restop,
                   conn, hSrv, hShut, hLis, wErr, httpPending, httpRpc>>

\* main.go:78-80.  sigChan := make(chan os.Signal, 1); signal.Notify(...).
NotifySignals ==
    /\ pc = "notify"
    /\ notified' = TRUE
    /\ pc' = "select"
    /\ UNCHANGED <<appVars, cfgLoaded, db, created, ctxCancelled, sigRecv, dbCloseCalls,
                   wg, stopVars, sigVars, envVars, grpcVars, gwVars, relVars, ran, restop>>

\* The cases of the select at main.go:82-87 that are ready.  cancel is only
\* deferred (main.go:55), so ctx.Done() is closed by nothing before runServer returns.
SelectReady ==
    {c \in {"sig", "ctx"} : \/ c = "sig" /\ sigChan > 0
                            \/ c = "ctx" /\ ctxCancelled}

\* Fault variant of SelectWait: shutdown starts with the gRPC server.
SelectWaitThenStopGRPCFirst ==
    /\ pc = "select"
    /\ \E c \in SelectReady :
          /\ sigChan' = IF c = "sig" THEN sigChan - 1 ELSE sigChan
          /\ sigRecv' = (sigRecv \/ c = "sig")
    /\ pc' = "stop_grpc"
    /\ UNCHANGED <<appVars, cfgLoaded, db, created, ctxCancelled, notified, dbCloseCalls,
                   wg, stopVars, sigCount, envVars, grpcVars, gwVars, relVars, ran, restop>>

\* main.go:82-90.
SelectWait ==
    /\ pc = "select"
    /\ \E c \in SelectReady :
          /\ sigChan' = IF c = "sig" THEN sigChan - 1 ELSE sigChan
          /\ sigRecv' = (sigRecv \/ c = "sig")
    /\ pc' = "stop_gw"
    /\ UNCHANGED <<appVars, cfgLoaded, db, created, ctxCancelled, notified, dbCloseCalls,
                   wg, stopVars, sigCount, envVars, grpcVars, gwVars, relVars, ran, restop>>

(***************************************************************************)
(* GatewayServer.Stop (gateway_server.go:76-82), called from position      *)
(* `from`; `wait` is the caller blocked inside http.Server.Shutdown and    *)
(* `after` the caller's position once Stop has returned.                   *)
(* s.server is read without synchronisation (see ReadServer).  Shutdown    *)
(* sets the server's inShutdown flag, closes the listeners it tracks (each *)
(* at most once), and then waits until no connection has a request in      *)
(* flight.                                                                 *)
(***************************************************************************)
\* The values the read of s.server at gateway_server.go:78 can yield.  The write
\* at line 65 is made by the Start goroutine and nothing orders it before the
\* read (a data race): the read yields nil until Start has stored the server,
\* and afterwards the server or still the initial nil.  A caller whose earlier
\* Stop has seen the server (and called Shutdown on it) sees it again.
ReadServer == IF hSrv = "set" /\ ~hShut THEN {"nil", "set"} ELSE {hSrv}

\* Fault variant of GatewayStop: every call closes the listener, even a closed one.
GatewayStopRecloses(from, wait, after) ==
    /\ pc = from
    /\ gwStopCalls' = gwStopCalls + 1
    /\ \E seen \in ReadServer :
       IF seen = "nil"
       THEN /\ pc' = after
            /\ gwStopRet' = "nil"
            /\ UNCHANGED <<lnerr, hShut, hLis, hLisRel>>
       ELSE /\ pc' = wait
            /\ gwStopRet' = "none"
            /\ hShut' = TRUE
            /\ IF hLis # "none"
               THEN \E e \in CloseResults :
                       /\ lnerr' = e
                       /\ hLis' = "closed"
                       /\ hLisRel' = hLisRel + 1
               ELSE lnerr' = "nil" /\ UNCHANGED <<hLis, hLisRel>>
    /\ restop' = IF hSrv = "set" /\ hShut THEN restop \cup {"gw"} ELSE restop
    /\ UNCHANGED <<appVars, wg, bootVars, grpcStopCalls, grpcStopRet, sigVars, envVars, grpcVars,
                   wpc, conn, hSrv, wErr, httpPending, httpRpc, gLisRel, ran>>

\* Fault variant of GatewayStop: a nil s.server is reported as an error.
GatewayStopNilIsError(from, wait, after) ==
    /\ pc = from
    /\ gwStopCalls' = gwStopCalls + 1
    /\ \E seen \in ReadServer :
       IF seen = "nil"
       THEN /\ pc' = after
            /\ gwStopRet' = "err"
            /\ UNCHANGED <<lnerr, hShut, hLis, hLisRel>>
       ELSE /\ pc' = wait
            /\ gwStopRet' = "none"
            /\ hShut' = TRUE
            /\ IF hLis = "bound"
               THEN \E e \in CloseResults :
                       /\ lnerr' = e
                       /\ hLis' = "closed"
                       /\ hLisRel' = hLisRel + 1
               ELSE lnerr' = "nil" /\ UNCHANGED <<hLis, hLisRel>>
    /\ restop' = IF hSrv = "set" /\ hShut THEN restop \cup {"gw"} ELSE restop
    /\ UNCHANGED <<appVars, wg, bootVars, grpcStopCalls, grpcStopRet, sigVars, envVars, grpcVars,
                   wpc, conn, hSrv, wErr, httpPending, httpRpc, gLisRel, ran>>

\* gateway_server.go:76-82.
GatewayStop(from, wait, after) ==
    /\ pc = from
    /\ gwStopCalls' = gwStopCalls + 1
    /\ \E seen \in ReadServer :
       IF seen = "nil"
       THEN /\ pc' = after
            /\ gwStopRet' = "nil"
            /\ UNCHANGED <<lnerr, hShut, hLis, hLisRel>>
       ELSE /\ pc' = wait
            /\ gwStopRet' = "none"
            /\ hShut' = TRUE
            /\ IF hLis = "bound"
               THEN \E e \in CloseResults :
                       /\ lnerr' = e
                       /\ hLis' = "closed"
                       /\ hLisRel' = hLisRel + 1
               ELSE lnerr' = "nil" /\ UNCHANGED <<hLis, hLisRel>>
    /\ restop' = IF hSrv = "set" /\ hShut THEN restop \cup {"gw"} ELSE restop
    /\ UNCHANGED <<appVars, wg, bootVars, grpcStopCalls, grpcStopRet, sigVars, envVars, grpcVars,
                   wpc, conn, hSrv, wErr, httpPending, httpRpc, gLisRel, ran>>

\* Fault variant of GatewayStopReturn: a Stop error makes the caller skip to its
\* deferred calls.
GatewayStopReturnAbortsOnError(wait, after) ==
    /\ pc = wait
    /\ httpPending + httpRpc = 0
    /\ gwStopRet' = lnerr
    /\ pc' = IF lnerr = "err" THEN "deferred" ELSE after
    /\ UNCHANGED <<appVars, wg, bootVars, gwStopCalls, grpcStopCalls, grpcStopRet, lnerr,
                   sigVars, envVars, grpcVars, gwVars, relVars, ran, restop>>

\* gateway_server.go:79.  Shutdown(context.Background()) returns the listener-close
\* result once every connection is idle; the context never expires.
GatewayStopReturn(wait, after) ==
    /\ pc = wait
    /\ httpPending + httpRpc = 0
    /\ gwStopRet' = lnerr
    /\ pc' = after
    /\ UNCHANGED <<appVars, wg, bootVars, gwStopCalls, grpcStopCalls, grpcStopRet, lnerr,
                   sigVars, envVars, grpcVars, gwVars, relVars, ran, restop>>

(***************************************************************************)
(* GRPCServer.Stop (the gRPC server file, lines 58-61): GracefulStop       *)
(* marks the server as quitting, closes the listeners passed to Serve,     *)
(* and returns once every RPC in flight has completed.                     *)
(***************************************************************************)
GRPCStop(from, wait, after) ==
    /\ pc = from
    /\ grpcStopCalls' = grpcStopCalls + 1
    /\ grpcStopRet' = "none"
    /\ gQuit' = TRUE
    /\ IF gpc = "serving" /\ gLis = "bound"
       THEN gLis' = "closed" /\ gLisRel' = gLisRel + 1
       ELSE UNCHANGED <<gLis, gLisRel>>
    /\ pc' = wait
    /\ restop' = IF gDone THEN restop \cup {"grpc"} ELSE restop
    /\ UNCHANGED <<appVars, wg, bootVars, gwStopCalls, gwStopRet, lnerr, sigVars, envVars,
                   gpc, gDone, gErr, srvDirect, srvGw, gwVars, hLisRel, ran>>

GRPCStopReturn(wait, after) ==
    /\ pc = wait
    /\ srvDirect + srvGw = 0
    /\ gDone' = TRUE
    /\ grpcStopRet' = "ret"
    /\ pc' = after
    /\ UNCHANGED <<appVars, wg, bootVars, gwStopCalls, grpcStopCalls, gwStopRet, lnerr,
                   sigVars, envVars, gpc, gLis, gQuit, gErr, srvDirect, srvGw,
                   gwVars, relVars, ran, restop>>

(***************************************************************************)
(* runServer (cmd/main.go), shutdown.                                      *)
(***************************************************************************)
\* main.go:92-95
StopGateway == GatewayStop("stop_gw", "gw_shutdown", "stop_grpc")
StopGatewayReturn == GatewayStopReturn("gw_shutdown", "stop_grpc")
\* main.go:97-98
StopGRPC == GRPCStop("stop_grpc", "grpc_stop", "wait")
StopGRPCReturn == GRPCStopReturn("grpc_stop", "wait")

\* Fault variant of WaitGroupWait: runServer does not join the goroutines.
WaitGroupWaitNoJoin ==
    /\ pc = "wait"
    /\ pc' = "deferred"
    /\ UNCHANGED <<appVars, wg, bootVars, stopVars, sigVars, envVars, grpcVars, gwVars, relVars, ran, restop>>

\* Fault variant of WaitGroupWait: the coordinator goes back to its wait when
\* another signal is buffered.
WaitGroupWaitReenters ==
    /\ pc = "wait"
    /\ wg = 0
    /\ pc' = IF sigChan > 0 THEN "select" ELSE "deferred"
    /\ UNCHANGED <<appVars, wg, bootVars, stopVars, sigVars, envVars, grpcVars, gwVars, relVars, ran, restop>>

\* main.go:100-103.  wg.Wait() returns when both goroutines have called wg.Done().
WaitGroupWait ==
    /\ pc = "wait"
    /\ wg = 0
    /\ pc' = "deferred"
    /\ UNCHANGED <<appVars, wg, bootVars, stopVars, sigVars, envVars, grpcVars, gwVars, relVars, ran, restop>>

\* main.go:104 with the deferred calls, last first: cancel() (main.go:55), then
\* mongodb.Close() (main.go:43-47).  runServer returns and the process exits 0.
ReturnDeferred ==
    /\ pc = "deferred"
    /\ ctxCancelled' = TRUE
    /\ db' = "closed"
    /\ dbCloseCalls' = dbCloseCalls + 1
    /\ pc' = "returned"
    /\ UNCHANGED <<appVars, cfgLoaded, created, notified, sigRecv, wg, stopVars, sigVars,
                   envVars, grpcVars, gwVars, relVars, ran, restop>>

\* The OS delivers SIGINT or SIGTERM while sigChan is registered: the signal
\* package does a non-blocking send, so a signal that finds the buffer full is
\* dropped.  (Before signal.Notify the runtime's default action ends the process;
\* that window is outside runServer's own logic and is not modelled.)
Signal ==
    /\ notified
    /\ pc # "returned"
    /\ sigCount < MaxSignals
    /\ sigCount' = sigCount + 1
    /\ sigChan' = 1
    /\ UNCHANGED <<appVars, coordVars, envVars, grpcVars, gwVars, relVars, ran, restop>>

(***************************************************************************)
(* GRPCServer.Start, run by the goroutine of main.go:62-67.  When Start    *)
(* returns the goroutine logs the error, if any, and calls wg.Done().      *)
(***************************************************************************)
\* net.Listen("tcp", address), lines 46-50 of the gRPC server file.
GRPCListen ==
    /\ gpc = "listen"
    /\ IF grpcPortFree
       THEN gLis' = "bound" /\ gpc' = "serve" /\ UNCHANGED <<gErr, wg>>
       ELSE gErr' = "err" /\ gpc' = "done" /\ wg' = wg - 1 /\ UNCHANGED gLis
    /\ UNCHANGED <<appVars, pc, bootVars, stopVars, sigVars, envVars, gQuit, gDone,
                   srvDirect, srvGw, gwVars, relVars, ran, restop>>

\* s.server.Serve(lis), line 54: a server that was already stopped closes lis
\* and returns ErrServerStopped; otherwise it accepts connections.
GRPCServe ==
    /\ gpc = "serve"
    /\ IF gQuit
       THEN /\ gLis' = "closed" /\ gLisRel' = gLisRel + 1
            /\ gErr' = "err" /\ gpc' = "done" /\ wg' = wg - 1
            /\ UNCHANGED ran
       ELSE /\ gpc' = "serving" /\ ran' = ran \cup {"grpc"}
            /\ UNCHANGED <<gLis, gLisRel, gErr, wg>>
    /\ UNCHANGED <<appVars, pc, bootVars, stopVars, sigVars, envVars, gQuit, gDone,
                   srvDirect, srvGw, gwVars, hLisRel, restop>>

\* Serve returns nil after GracefulStop has closed its listener.
GRPCServeReturn ==
    /\ gpc = "serving"
    /\ gQuit
    /\ gErr' = "nil" /\ gpc' = "done" /\ wg' = wg - 1
    /\ UNCHANGED <<appVars, pc, bootVars, stopVars, sigVars, envVars, gLis, gQuit, gDone,
                   srvDirect, srvGw, gwVars, relVars, ran, restop>>

\* Fault variant of GRPCServeError: after a Serve error the goroutine starts the
\* server again.
GRPCServeErrorRestarts ==
    /\ gpc = "serving"
    /\ ~gQuit
    /\ gLis' = "closed" /\ gLisRel' = gLisRel + 1
    /\ gErr' = "err" /\ gpc' = "listen"
    /\ UNCHANGED <<appVars, pc, wg, bootVars, stopVars, sigVars, envVars, gQuit, gDone,
                   srvDirect, srvGw, gwVars, hLisRel, ran, restop>>

\* Serve returns an error: Accept failed with a permanent I/O error.  Serve
\* closes its listener; connections already accepted live on.
GRPCServeError ==
    /\ gpc = "serving"
    /\ ~gQuit
    /\ gLis' = "closed" /\ gLisRel' = gLisRel + 1
    /\ gErr' = "err" /\ gpc' = "done" /\ wg' = wg - 1
    /\ UNCHANGED <<appVars, pc, bootVars, stopVars, sigVars, envVars, gQuit, gDone,
                   srvDirect, srvGw, gwVars, hLisRel, ran, restop>>

(***************************************************************************)
(* GatewayServer.Start, run by the goroutine of main.go:71-76.             *)
(***************************************************************************)
\* Fault variant of GatewayDial: the dial returns without waiting for the server.
GatewayDialNonBlocking ==
    /\ wpc = "dial"
    /\ conn' = "open"
    /\ wpc' = "register"
    /\ UNCHANGED <<appVars, coordVars, sigVars, envVars, grpcVars, relVars, ran, restop,
                   hSrv, hShut, hLis, wErr, httpPending, httpRpc>>

\* Fault variant of GatewayDial: Start goes on without a connection to the gRPC server.
GatewayDialSkipped ==
    /\ wpc = "dial"
    /\ wpc' = "register"
    /\ UNCHANGED <<appVars, coordVars, sigVars, envVars, grpcVars, relVars, ran, restop,
                   conn, hSrv, hShut, hLis, wErr, httpPending, httpRpc>>

\* gateway_server.go:38-49.  grpc.DialContext with WithBlock and a context that
\* nothing cancels returns only when the connection is ready, that is, when the
\* gRPC server is accepting; until then it blocks.
GatewayDial ==
    /\ wpc = "dial"
    /\ gpc = "serving" /\ ~gQuit /\ gLis = "bound"
    /\ conn' = "open"
    /\ wpc' = "register"
    /\ UNCHANGED <<appVars, coordVars, sigVars, envVars, grpcVars, relVars, ran, restop,
                   hSrv, hShut, hLis, wErr, httpPending, httpRpc>>

\* gateway_server.go:51-58.  On a registration error Start returns it; the
\* deferred conn.Close() and cancel() run.
GatewayRegister ==
    /\ wpc = "register"
    /\ \E r \in RegisterOutcomes :
          IF r = "nil"
          THEN wpc' = "setup" /\ UNCHANGED <<conn, wErr, wg>>
          ELSE wpc' = "done" /\ wErr' = "err" /\ conn' = "closed" /\ wg' = wg - 1
    /\ UNCHANGED <<appVars, pc, bootVars, stopVars, sigVars, envVars, grpcVars, relVars, ran, restop,
                   hSrv, hShut, hLis, httpPending, httpRpc>>

\* gateway_server.go:60-70.  setupRoutes, then s.server = &http.Server{...}.
GatewaySetup ==
    /\ wpc = "setup"
    /\ hSrv' = "set"
    /\ wpc' = "listen"
    /\ UNCHANGED <<appVars, coordVars, sigVars, envVars, grpcVars, relVars, ran, restop,
                   conn, hShut, hLis, wErr, httpPending, httpRpc>>

\* gateway_server.go:72.  ListenAndServe returns ErrServerClosed if the server is
\* shutting down, the bind error if the port is unavailable, and serves otherwise.
GatewayListen ==
    /\ wpc = "listen"
    /\ IF hShut
       THEN /\ wpc' = "done" /\ wErr' = "closed" /\ conn' = "closed" /\ wg' = wg - 1
            /\ UNCHANGED <<hLis, ran>>
       ELSE IF ~httpPortFree
       THEN /\ wpc' = "done" /\ wErr' = "err" /\ conn' = "closed" /\ wg' = wg - 1
            /\ UNCHANGED <<hLis, ran>>
       ELSE /\ wpc' = "serving" /\ hLis' = "bound" /\ ran' = ran \cup {"gw"}
            /\ UNCHANGED <<wErr, conn, wg>>
    /\ UNCHANGED <<appVars, pc, bootVars, stopVars, sigVars, envVars, grpcVars, relVars,
                   hSrv, hShut, httpPending, httpRpc, restop>>

\* ListenAndServe returns ErrServerClosed as soon as Shutdown has been called; it
\* does not wait for the drain.  Start returns: conn.Close() and cancel() run.
GatewayServeReturn ==
    /\ wpc = "serving"
    /\ hShut
    /\ wpc' = "done" /\ wErr' = "closed" /\ conn' = "closed" /\ wg' = wg - 1
    /\ UNCHANGED <<appVars, pc, bootVars, stopVars, sigVars, envVars, grpcVars, relVars, ran, restop,
                   hSrv, hShut, hLis, httpPending, httpRpc>>

\* ListenAndServe returns an error: Accept failed with a permanent I/O error.
GatewayServeError ==
    /\ wpc = "serving"
    /\ ~hShut
    /\ hLis' = "closed" /\ hLisRel' = hLisRel + 1
    /\ wpc' = "done" /\ wErr' = "err" /\ conn' = "closed" /\ wg' = wg - 1
    /\ UNCHANGED <<appVars, pc, bootVars, stopVars, sigVars, envVars, grpcVars, gLisRel, ran, restop,
                   hSrv, hShut, httpPending, httpRpc>>

(***************************************************************************)
(* Requests.                                                               *)
(***************************************************************************)
\* A client's RPC is accepted by the serving gRPC server.
RpcArrive ==
    /\ gpc = "serving" /\ ~gQuit
    /\ srvDirect < MaxReq
    /\ srvDirect' = srvDirect + 1
    /\ UNCHANGED <<appVars, coordVars, sigVars, envVars, gpc, gLis, gQuit, gDone, gErr, srvGw,
                   gwVars, relVars, ran, restop>>

\* The handler of a direct RPC returns.
RpcComplete ==
    /\ srvDirect > 0
    /\ srvDirect' = srvDirect - 1
    /\ UNCHANGED <<appVars, coordVars, sigVars, envVars, gpc, gLis, gQuit, gDone, gErr, srvGw,
                   gwVars, relVars, ran, restop>>

\* An HTTP request is accepted by the listening gateway.
HttpArrive ==
    /\ wpc = "serving" /\ ~hShut /\ hLis = "bound"
    /\ httpPending + httpRpc < MaxReq
    /\ httpPending' = httpPending + 1
    /\ UNCHANGED <<appVars, coordVars, sigVars, envVars, grpcVars, relVars, ran, restop,
                   wpc, conn, hSrv, hShut, hLis, wErr, httpRpc>>

\* The translation handler issues the RPC over conn to the gRPC server.
HttpForward ==
    /\ httpPending > 0
    /\ conn = "open" /\ ~gQuit
    /\ httpPending' = httpPending - 1
    /\ httpRpc' = httpRpc + 1
    /\ srvGw' = srvGw + 1
    /\ UNCHANGED <<appVars, coordVars, sigVars, envVars, gpc, gLis, gQuit, gDone, gErr, srvDirect,
                   relVars, ran, restop, wpc, conn, hSrv, hShut, hLis, wErr>>

\* The request is answered without an RPC: a preflight, a static route, or an
\* error status because the backend is unavailable.
HttpRespond ==
    /\ httpPending > 0
    /\ httpPending' = httpPending - 1
    /\ UNCHANGED <<appVars, coordVars, sigVars, envVars, grpcVars, relVars, ran, restop,
                   wpc, conn, hSrv, hShut, hLis, wErr, httpRpc>>

\* The RPC's handler returns and the HTTP response is written.
HttpRpcComplete ==
    /\ httpRpc > 0 /\ srvGw > 0
    /\ conn = "open"
    /\ httpRpc' = httpRpc - 1
    /\ srvGw' = srvGw - 1
    /\ UNCHANGED <<appVars, coordVars, sigVars, envVars, gpc, gLis, gQuit, gDone, gErr, srvDirect,
                   relVars, ran, restop, wpc, conn, hSrv, hShut, hLis, wErr, httpPending>>

\* conn has been closed under the call: it fails and the HTTP request is
\* answered with an error status.
HttpRpcAbort ==
    /\ httpRpc > 0
    /\ conn = "closed"
    /\ httpRpc' = httpRpc - 1
    /\ UNCHANGED <<appVars, coordVars, sigVars, envVars, grpcVars, relVars, ran, restop,
                   wpc, conn, hSrv, hShut, hLis, wErr, httpPending>>

\* The server-side handler of an aborted call returns.
RpcOrphanComplete ==
    /\ srvGw > httpRpc
    /\ srvGw' = srvGw - 1
    /\ UNCHANGED <<appVars, coordVars, sigVars, envVars, gpc, gLis, gQuit, gDone, gErr, srvDirect,
                   gwVars, relVars, ran, restop>>

(***************************************************************************)
(* The process.                                                            *)
(***************************************************************************)
\* Steps of the program's own goroutines and of requests already accepted.
ProgStep ==
    \/ LoadConfig \/ ConnectMongoDB \/ CreateServers \/ SpawnGRPC \/ SpawnGateway
    \/ NotifySignals \/ SelectWait
    \/ StopGateway \/ StopGatewayReturn \/ StopGRPC \/ StopGRPCReturn
    \/ WaitGroupWait \/ ReturnDeferred
    \/ GRPCListen \/ GRPCServe \/ GRPCServeReturn
    \/ GatewayDial \/ GatewayRegister \/ GatewaySetup \/ GatewayListen \/ GatewayServeReturn
    \/ RpcComplete \/ HttpForward \/ HttpRespond \/ HttpRpcComplete \/ HttpRpcAbort
    \/ RpcOrphanComplete

\* Steps of the environment: signals, new requests, I/O faults.
EnvStep ==
    \/ Signal \/ RpcArrive \/ HttpArrive \/ GRPCServeError \/ GatewayServeError

Next == ProgStep \/ EnvStep

Spec == Init /\ [][Next]_vars

(***************************************************************************)
(* The two server handles driven directly: both Start calls run in their   *)
(* goroutines as in runServer, and a caller invokes GatewayServer.Stop and *)
(* GRPCServer.Stop one after another, in any order and any number of times *)
(* up to MaxStops, at any moment of the servers' lives.                    *)
(***************************************************************************)
HarnessInit ==
    /\ pc = "h_idle"
    /\ cfgLoaded = TRUE /\ db = "open" /\ created = TRUE
    /\ ctxCancelled = FALSE /\ notified = FALSE
    /\ sigChan = 0 /\ sigCount = 0 /\ sigRecv = FALSE
    /\ wg = 2
    /\ gwStopCalls = 0 /\ grpcStopCalls = 0 /\ dbCloseCalls = 0
    /\ gwStopRet = "none" /\ grpcStopRet = "none" /\ lnerr = "nil"
    /\ grpcPortFree \in BOOLEAN /\ httpPortFree \in BOOLEAN
    /\ gpc = "listen" /\ gLis = "none" /\ gLisRel = 0
    /\ gQuit = FALSE /\ gDone = FALSE /\ gErr = "none"
    /\ srvDirect = 0 /\ srvGw = 0
    /\ wpc = "dial" /\ conn = "none" /\ hSrv = "nil" /\ hShut = FALSE
    /\ hLis = "none" /\ hLisRel = 0 /\ wErr = "none"
    /\ httpPending = 0 /\ httpRpc = 0
    /\ ran = {} /\ restop = {}
    /\ AppInit

HarnessStopGateway ==
    /\ gwStopCalls + grpcStopCalls < MaxStops
    /\ GatewayStop("h_idle", "h_gw_shutdown", "h_idle")
HarnessStopGatewayReturn == GatewayStopReturn("h_gw_shutdown", "h_idle")
HarnessStopGRPC ==
    /\ gwStopCalls + grpcStopCalls < MaxStops
    /\ GRPCStop("h_idle", "h_grpc_stop", "h_idle")
HarnessStopGRPCReturn == GRPCStopReturn("h_grpc_stop", "h_idle")

HarnessNext ==
    \/ HarnessStopGateway \/ HarnessStopGatewayReturn
    \/ HarnessStopGRPC \/ HarnessStopGRPCReturn
    \/ GRPCListen \/ GRPCServe \/ GRPCServeReturn \/ GRPCServeError
    \/ GatewayDial \/ GatewayRegister \/ GatewaySetup \/ GatewayListen
    \/ GatewayServeReturn \/ GatewayServeError
    \/ RpcArrive \/ RpcComplete \/ HttpArrive \/ HttpForward \/ HttpRespond
    \/ HttpRpcComplete \/ HttpRpcAbort \/ RpcOrphanComplete

HarnessSpec == HarnessInit /\ [][HarnessNext]_vars

(***************************************************************************)
(* The request side on its own: both servers are running and stay so, and  *)
(* clients call UserService one request after another.                     *)
(***************************************************************************)
\* The process with both server units running and no shutdown requested.
Serving ==
    /\ pc = "select"
    /\ cfgLoaded = TRUE /\ db = "open" /\ created = TRUE
    /\ ctxCancelled = FALSE /\ notified = TRUE
    /\ sigChan = 0 /\ sigCount = 0 /\ sigRecv = FALSE
    /\ wg = 2
    /\ gwStopCalls = 0 /\ grpcStopCalls = 0 /\ dbCloseCalls = 0
    /\ gwStopRet = "none" /\ grpcStopRet = "none" /\ lnerr = "nil"
    /\ grpcPortFree = TRUE /\ httpPortFree = TRUE
    /\ gpc = "serving" /\ gLis = "bound" /\ gLisRel = 0
    /\ gQuit = FALSE /\ gDone = FALSE /\ gErr = "none"
    /\ srvDirect = 0 /\ srvGw = 0
    /\ wpc = "serving" /\ conn = "open" /\ hSrv = "set" /\ hShut = FALSE
    /\ hLis = "bound" /\ hLisRel = 0 /\ wErr = "none"
    /\ httpPending = 0 /\ httpRpc = 0
    /\ ran = {"grpc", "gw"} /\ restop = {}

UserInit == Serving /\ AppInit

UserNext ==
    \/ CreateUserCall \/ GetUserCall \/ ListUsersCall \/ UpdateUserCall \/ DeleteUserCall
    \/ Reply \/ Tick

UserSpec == UserInit /\ [][UserNext]_vars

\* The gateway's routing on its own: both servers are running and clients send
\* HTTP requests.
RouteInit == Serving /\ AppInit

RouteNext == ServeHTTP

RouteSpec == RouteInit /\ [][RouteNext]_vars

(***************************************************************************)
(* Type invariant.                                                         *)
(***************************************************************************)
TypeOK ==
    /\ pc \in {"load", "connect", "exit_fail", "create", "spawn_grpc", "spawn_gw",
               "notify", "select", "stop_gw", "gw_shutdown", "stop_grpc", "grpc_stop",
               "wait", "deferred", "returned", "h_idle", "h_gw_shutdown", "h_grpc_stop"}
    /\ cfgLoaded \in BOOLEAN /\ created \in BOOLEAN /\ ctxCancelled \in BOOLEAN
    /\ notified \in BOOLEAN /\ sigRecv \in BOOLEAN
    /\ db \in {"none", "open", "closed"}
    /\ sigChan \in 0..1 /\ sigCount \in 0..MaxSignals
    /\ wg \in 0..2
    /\ gwStopCalls \in Nat /\ grpcStopCalls \in Nat /\ dbCloseCalls \in Nat
    /\ gwStopRet \in {"none", "nil", "err"} /\ grpcStopRet \in {"none", "ret"}
    /\ lnerr \in CloseResults
    /\ grpcPortFree \in BOOLEAN /\ httpPortFree \in BOOLEAN
    /\ gpc \in {"idle", "listen", "serve", "serving", "done"}
    /\ gLis \in {"none", "bound", "closed"} /\ hLis \in {"none", "bound", "closed"}
    /\ gLisRel \in Nat /\ hLisRel \in Nat
    /\ gQuit \in BOOLEAN /\ gDone \in BOOLEAN /\ hShut \in BOOLEAN
    /\ gErr \in {"none", "nil", "err"} /\ wErr \in {"none", "closed", "err"}
    /\ srvDirect \in 0..MaxReq /\ srvGw \in 0..MaxReq
    /\ httpPending \in 0..MaxReq /\ httpRpc \in 0..MaxReq
    /\ srvGw >= httpRpc
    /\ wpc \in {"idle", "dial", "register", "setup", "listen", "serving", "done"}
    /\ conn \in {"none", "open", "closed"} /\ hSrv \in {"nil", "set"}
    /\ ran \subseteq {"grpc", "gw"} /\ restop \subseteq {"grpc", "gw"}

(***************************************************************************)
(* Properties.                                                             *)
(***************************************************************************)
\* A server unit's Start has returned an error because its port could not be bound.
BindFailed ==
    \/ ~grpcPortFree /\ gpc = "done" /\ gErr = "err"
    \/ ~httpPortFree /\ wpc = "done" /\ wErr = "err" /\ hSrv = "set"
\* Both ports can be bound: a valid configuration.
ValidConfig == grpcPortFree /\ httpPortFree
\* No goroutine of the program can take a step and no accepted request is
\* outstanding: the state lasts until the environment acts.
Quiescent == ~ENABLED ProgStep

\* C1: GRPCServer.Stop is invoked only after GatewayServer.Stop has been invoked
\* and has returned: in no reachable state has the RPC server's stop begun while
\* the gateway's stop has not been issued or has not returned.
C1_GatewayStopBeforeGRPCStop ==
    grpcStopCalls > 0 => (gwStopCalls > 0 /\ gwStopRet # "none")

\* C1 witness: GRPCServer.Stop is in progress after a gateway Stop that shut a
\* listening HTTP server down.
C1_Witness ==
    pc = "grpc_stop" /\ grpcStopCalls = 1 /\ gwStopCalls = 1 /\ hShut /\ hLisRel = 1

\* C2: with no signal delivered, a state in which one unit's Start has returned
\* an error (here: its port was unavailable), the other unit is serving and the
\* coordinator is still in its wait
\* is never stable: the coordinator (or a goroutine that wakes it) can take a step.
C2_FailureWakesCoordinator ==
    (BindFailed /\ (gpc = "serving" \/ wpc = "serving") /\ pc = "select" /\ sigCount = 0)
        => ~Quiescent

\* C3: if GRPCServer.Start failed at bind, the program keeps making progress
\* until runServer has returned: it never blocks forever.
C3_BindFailureTerminates ==
    (~grpcPortFree /\ gpc = "done") => (pc = "returned" \/ ~Quiescent)

\* C4: the running -> shutting_down transition happens exactly once whatever the
\* number of signals: each Stop and the datastore Close is invoked at most once,
\* the coordinator never re-enters its wait, and a signal delivered outside the
\* wait changes nothing but the signal channel's buffer.
C4_ShutdownOnce ==
    [][ /\ gwStopCalls' <= 1 /\ grpcStopCalls' <= 1 /\ dbCloseCalls' <= 1
        /\ (pc' = "select" /\ pc # "select") => pc = "notify"
        /\ (pc = "select" /\ pc' # "select") => pc' = "stop_gw"
        /\ (sigCount' # sigCount /\ pc # "select")
              => UNCHANGED <<coordVars, grpcVars, gwVars, relVars>> ]_vars

\* C4 witness: two signals were delivered, the second after the select had taken
\* the first; it is still buffered when runServer has returned after one shutdown.
C4_Witness ==
    /\ pc = "returned" /\ sigCount = 2 /\ sigChan = 1 /\ sigRecv
    /\ gwStopCalls = 1 /\ grpcStopCalls = 1 /\ dbCloseCalls = 1

\* C5: once the select has received a termination signal (both ports free, so
\* neither server fails to bind), the program keeps making progress until
\* runServer has returned, provided requests in flight complete.
C5_SignalLeadsToReturn ==
    (sigRecv /\ ValidConfig) => (pc = "returned" \/ ~Quiescent)

\* C6: the datastore handle is closed only after both Stop calls have returned
\* and both server goroutines have exited (the join), and then no RPC handler,
\* the only user of the handle, is still running.
C6_CloseAfterJoin ==
    db = "closed" =>
        /\ gwStopRet # "none" /\ grpcStopRet = "ret"
        /\ gpc = "done" /\ wpc = "done" /\ wg = 0
        /\ RpcInflight = 0

\* C6 witness: the handle is closed after both servers had been running.
C6_Witness ==
    db = "closed" /\ ran = {"grpc", "gw"} /\ dbCloseCalls = 1

\* C7: a failed datastore connection ends the process with a failure status
\* before either server is constructed or started; whenever a server has been
\* constructed or started, the configuration is loaded and the handle has been
\* opened, and it is open for as long as a server goroutine runs.
C7_StartupOrder ==
    /\ pc = "exit_fail" => (db = "none" /\ ~created /\ gpc = "idle" /\ wpc = "idle")
    /\ (created \/ gpc # "idle" \/ wpc # "idle") => (cfgLoaded /\ db # "none")
    /\ (gpc \in {"listen", "serve", "serving"} \/ wpc \notin {"idle", "done"})
          => db = "open"

\* C7 witness: NewMongoDB returned an error and the process has exited.
C7_Witness ==
    pc = "exit_fail" /\ cfgLoaded /\ db = "none" /\ ~created

\* C8 as stated: with a valid configuration and both server units launched, a
\* request (RPC or HTTP) is accepted only when both server handles have reached
\* running.
C8_BothRunningBeforeAnyRequest ==
    [][ (ValidConfig /\ gpc # "idle" /\ wpc # "idle"
           /\ (srvDirect' > srvDirect \/ httpPending' > httpPending))
           => ran = {"grpc", "gw"} ]_vars

\* C8 amended: with a valid configuration, an HTTP request is accepted only by a
\* running gateway and after the RPC server has reached running, and an RPC
\* request only by a running RPC server (the gateway may still be starting).
C8_EachServerRunningBeforeItsRequests ==
    [][ /\ (ValidConfig /\ httpPending' > httpPending)
              => (wpc = "serving" /\ ran = {"grpc", "gw"})
        /\ (ValidConfig /\ srvDirect' > srvDirect)
              => (gpc = "serving" /\ "grpc" \in ran) ]_vars

\* C8 witness: an HTTP request and a direct RPC have both been accepted.
C8_Witness ==
    ValidConfig /\ httpPending > 0 /\ srvDirect > 0

\* The gateway has been shut down / the RPC server has been stopped, and no
\* Stop call is in progress.
GatewayStopped == pc = "h_idle" /\ hSrv = "set" /\ hShut
GRPCStopped == pc = "h_idle" /\ gDone

\* C9: a Stop call on an already-stopped server changes no server state and
\* releases no listener again (no listener is ever released twice); the
\* gateway's call has nothing to wait for and returns nil.
C9_StopIdempotent ==
    [][ /\ (GatewayStopped /\ gwStopCalls' > gwStopCalls)
              => /\ UNCHANGED <<gwVars, grpcVars, relVars>>
                 /\ lnerr' = "nil" /\ httpPending' + httpRpc' = 0
        /\ (pc = "h_gw_shutdown" /\ pc' = "h_idle") => gwStopRet' = lnerr
        /\ (GRPCStopped /\ grpcStopCalls' > grpcStopCalls)
              => UNCHANGED <<gwVars, grpcVars, relVars>>
        /\ hLisRel' <= 1 /\ gLisRel' <= 1 ]_vars

\* C9 witness: each server was stopped while listening, then stopped again; the
\* gateway's last Stop has returned nil and each listener was released once.
C9_Witness ==
    /\ pc = "h_idle" /\ restop = {"grpc", "gw"}
    /\ gwStopRet = "nil" /\ grpcStopRet = "ret"
    /\ hLisRel = 1 /\ gLisRel = 1

\* C10: GatewayServer.Stop called while s.server is still nil returns nil at
\* once and changes no gateway state.
C10_StopBeforeStartIsNoOp ==
    [][ (gwStopCalls' > gwStopCalls /\ hSrv = "nil")
           => /\ gwStopRet' = "nil"
              /\ pc' \notin {"gw_shutdown", "h_gw_shutdown"}
              /\ UNCHANGED <<gwVars, hLisRel>> ]_vars

\* C10 witness: Stop has returned nil while Start is still dialing.
C10_Witness ==
    pc = "stop_grpc" /\ gwStopCalls = 1 /\ gwStopRet = "nil" /\ wpc = "dial" /\ hSrv = "nil"

C17_BestEffortShutdown ==
    gwStopRet = "err" =>
        /\ pc \in {"wait", "deferred", "returned"} => (grpcStopCalls = 1 /\ grpcStopRet = "ret")
        /\ pc \in {"deferred", "returned"} => (wg = 0 /\ gpc = "done" /\ wpc = "done")
        /\ pc = "returned" => (dbCloseCalls = 1 /\ db = "closed")
        /\ pc = "returned" \/ ~Quiescent

\* C17 witness: runServer has returned after a GatewayServer.Stop that returned
\* the listener's close error.
C17_Witness ==
    pc = "returned" /\ gwStopRet = "err" /\ lnerr = "err" /\ grpcStopCalls = 1 /\ db = "closed"

\* The positions of GRPCServer.Start and GatewayServer.Start in lifecycle order:
\* created, starting (one rank per statement), running, and stopped or failed.
GRPCRank(p) ==
    CASE p = "idle" -> 0 [] p = "listen" -> 1 [] p = "serve" -> 2
      [] p = "serving" -> 3 [] p = "done" -> 4
GatewayRank(p) ==
    CASE p = "idle" -> 0 [] p = "dial" -> 1 [] p = "register" -> 2 [] p = "setup" -> 3
      [] p = "listen" -> 4 [] p = "serving" -> 5 [] p = "done" -> 6

\* C18: in every step each handle's position stays or moves forward; Start is
\* entered only from the created state, by the coordinator's one spawn of it; a
\* handle enters running only if it has never been running; and it enters
\* stopped or failed only if Start has not returned before.
C18_LifecycleForwardOnly ==
    [][ /\ GRPCRank(gpc') >= GRPCRank(gpc)
        /\ GatewayRank(wpc') >= GatewayRank(wpc)
        /\ (gpc' = "listen" /\ gpc # "listen") => (gpc = "idle" /\ pc = "spawn_grpc")
        /\ (wpc' = "dial" /\ wpc # "dial") => (wpc = "idle" /\ pc = "spawn_gw")
        /\ (gpc' = "serving" /\ gpc # "serving") => "grpc" \notin ran
        /\ (wpc' = "serving" /\ wpc # "serving") => "gw" \notin ran
        /\ (gpc' = "done" /\ gpc # "done") => gErr = "none"
        /\ (wpc' = "done" /\ wpc # "done") => wErr = "none" ]_vars

\* C18 witness: both handles have been running; the gRPC server then failed and
\* the gateway was stopped.
C18_Witness ==
    /\ gpc = "done" /\ gErr = "err" /\ wpc = "done" /\ wErr = "closed"
    /\ ran = {"grpc", "gw"} /\ pc = "returned"

\* A call that has been served and not yet answered, by operation and status.
Served(op, st) == call.op = op /\ call.status = st
\* The ObjectID a well-formed identifier string denotes.
OidOf(s) == CHOOSE x \in ObjectIDFromHex(s) : TRUE

\* C13: a ListUsers call that returns a response has Page = 1 if the request's
\* page is <= 0 and the request's page otherwise, PageSize = 10 if the request's
\* page_size is <= 0 and the request's page_size otherwise; both are >= 1; the
\* datastore is asked for PageSize documents, and from the first one when the
\* request's page is <= 0.
C13_ListUsersNormalizes ==
    Served("list", "OK") =>
        /\ call.respPage = (IF call.page <= 0 THEN 1 ELSE call.page)
        /\ call.respPageSize = (IF call.pageSize <= 0 THEN 10 ELSE call.pageSize)
        /\ call.respPage >= 1 /\ call.respPageSize >= 1
        /\ call.limit = call.respPageSize
        /\ call.page <= 0 => call.skip = 0

\* C13 witness: a request with a negative page and page_size 0 was answered with
\* page 1 and page size 10.
C13_Witness ==
    /\ Served("list", "OK") /\ call.page = -1 /\ call.pageSize = 0
    /\ call.respPage = 1 /\ call.respPageSize = 10

\* C14: a successful CreateUser returns the request's name, email and phone with
\* created_at = updated_at, and a successful GetUser with the identifier that
\* CreateUser returned, before any update or delete of that user, returns the user
\* CreateUser returned: same id, name, email, phone, created_at and updated_at.
C14_CreateGetRoundTrip ==
    /\ Served("create", "OK") =>
          /\ call.user.created_at = call.user.updated_at
          /\ call.user.name = call.name /\ call.user.email = call.email
          /\ call.user.phone = call.phone
          /\ ObjectIDFromHex(call.user.id) # {}
    /\ Served("get", "OK") =>
          \A u \in fresh : call.id = u.id => call.user = u

C19_UpdateIsPartial ==
    [][ (call = NoCall /\ call'.op = "update" /\ call'.status = "OK") =>
          LET oid == OidOf(call'.id)
              old == users[oid]
              new == users'[oid]
              req == call'
          IN  /\ oid \in DOMAIN users /\ DOMAIN users' = DOMAIN users
              /\ nextId' = nextId
              /\ \A k \in DOMAIN users \ {oid} : users'[k] = users[k]
              /\ new.name  \in (IF req.name = {} THEN {old.name} ELSE req.name)
              /\ new.email \in (IF req.email = {} THEN {old.email} ELSE req.email)
              /\ new.phone \in (IF req.phone = {} THEN {old.phone} ELSE req.phone)
              /\ new.created_at = old.created_at
              /\ new.updated_at <= now /\ now - new.updated_at < TicksPerMs
              /\ new.updated_at >= old.updated_at
              /\ req.user = [id |-> <<"lower", oid>>, name |-> new.name,
                             email |-> new.email, phone |-> new.phone,
                             created_at |-> new.created_at,
                             updated_at |-> new.updated_at] ]_vars

\* C19 witness: with two users stored, an update carrying only a name has
\* returned the user with the new name and a later updated_at.
C19_Witness ==
    /\ Served("update", "OK")
    /\ call.name = {"b"} /\ call.email = {} /\ call.phone = {}
    /\ call.user.name = "b" /\ call.user.updated_at > call.user.created_at
    /\ Cardinality(DOMAIN users) = 2

C11_EveryResponseHasCors ==
    web.method # "none" =>
        /\ { <<"Access-Control-Allow-Origin", "*">>,
              <<"Access-Control-Allow-Methods", "GET, POST, PUT, DELETE, OPTIONS">>,
              <<"Access-Control-Allow-Headers", "Content-Type, Authorization">> }
               \subseteq web.headers
        /\ Head(web.reached) = "cors"

\* C12: the response to an OPTIONS request, whatever its path, has status 200,
\* an empty body and the three CORS headers, and no handler but the CORS
\* middleware was reached.
C12_OptionsShortCircuits ==
    web.method = "OPTIONS" =>
        /\ web.status = 200 /\ web.body = ""
        /\ { <<"Access-Control-Allow-Origin", "*">>,
              <<"Access-Control-Allow-Methods", "GET, POST, PUT, DELETE, OPTIONS">>,
              <<"Access-Control-Allow-Headers", "Content-Type, Authorization">> }
               \subseteq web.headers
        /\ web.reached = <<"cors">>

\* C21: once GatewayServer.Stop has returned, no later step of the gateway binds
\* the HTTP listener, enters ListenAndServe's serving loop or accepts an HTTP
\* request.
C21_NoServeAfterStopReturned ==
    [][ gwStopRet # "none" =>
          /\ ~(hLis' = "bound" /\ hLis # "bound")
          /\ ~(wpc' = "serving" /\ wpc # "serving")
          /\ httpPending' <= httpPending ]_vars

\* C22: while the caller of GatewayServer.Stop is blocked in Shutdown with a
\* translated request still waiting for its RPC, the gateway's client connection
\* to the RPC server is open.
C22_ConnOpenDuringDrain ==
    (pc = "gw_shutdown" /\ httpRpc > 0) => conn = "open"

\* C23: in every ListUsers call that reaches Find, with page' and page_size' the
\* normalised page and page size, the skip handed to the datastore is >= 0 and
\* is the exact integer product (page' - 1) * page_size' (skip is a multiple of
\* page_size' and their quotient is page' - 1), and the limit is page_size'.
C23_SkipIsExactProduct ==
    (call.op = "list" /\ call.dbCalls = 2) =>
        LET page     == IF call.page <= 0 THEN 1 ELSE call.page
            pageSize == IF call.pageSize <= 0 THEN 10 ELSE call.pageSize
        IN  /\ call.skip >= 0
            /\ call.skip % pageSize = 0
            /\ call.skip \div pageSize = page - 1
            /\ call.limit = pageSize

=============================================================================
